---- MODULE Spec2Model ----
(***************************************************************************)
(* Model of the temporal-attribution core of jira-dev-metrics:             *)
(* src/report.py (find_at_time, build_changelog, calculate_workload,       *)
(* group_by_lead, main) and src/dateutils.py (strptime, datetime_compare). *)
(*                                                                         *)
(* Python values are modelled as follows.                                  *)
(*   - None is the string "None" where the other values are strings, and   *)
(*     the record NoneObj where the other values are objects.              *)
(*   - A dict is a sequence of [key, val] records in insertion order (the  *)
(*     iteration order of a Python dict).                                  *)
(*   - List indices are Python's: 0-based, negative ones count from the    *)
(*     end (PyAt).                                                         *)
(*   - A timestamp string is a record [wall, off, wellformed]: the wall    *)
(*     clock reading, the UTC offset written after it (both in seconds)    *)
(*     and whether the text matches "%Y-%m-%dT%H:%M:%S.%f%z".              *)
(*   - A datetime is the instant in seconds; a float of seconds is an      *)
(*     integer (all instants of the model are whole seconds).              *)
(***************************************************************************)
EXTENDS Integers, Sequences, FiniteSets, TLC

VARIABLES
    response,           \* search.json as loaded by main
    args_status,        \* --status
    pc,                 \* position of the program
    changelog,          \* result of build_changelog
    per_issue,          \* calculate_workload: the result being accumulated
    issue_pos,          \* calculate_workload: items of changelog already taken
    target_status_idx,  \* calculate_workload: window indices of the current issue
    win_pos,            \* calculate_workload: windows of the issue already taken
    assignee_idx,       \* calculate_workload: the cursor
    start,              \* calculate_workload: start of the (rest of the) window
    end,                \* calculate_workload: end of the window
    credit_log,         \* history: one entry per += of calculate_workload
    per_leads,          \* result of group_by_lead
    found               \* last call of find_at_time: its arguments and result

vars == <<response, args_status, pc, changelog, per_issue, issue_pos,
          target_status_idx, win_pos, assignee_idx, start, end, credit_log,
          per_leads, found>>

None == "None"
NoneObj == [isNone |-> TRUE]

(***************************************************************************)
(* Python lists and dicts                                                  *)
(***************************************************************************)
PyAt(list, i) == list[IF i < 0 THEN Len(list) + i + 1 ELSE i + 1]

Reversed(list) == [j \in 1..Len(list) |-> list[Len(list) + 1 - j]]

DictHas(d, k) == \E j \in 1..Len(d) : d[j].key = k

DictPos(d, k) == CHOOSE j \in 1..Len(d) : d[j].key = k

DictGet(d, k) == d[DictPos(d, k)].val

DictSet(d, k, v) ==
    IF DictHas(d, k) THEN [d EXCEPT ![DictPos(d, k)].val = v]
    ELSE Append(d, [key |-> k, val |-> v])

DictSetDefault(d, k, v) ==
    IF DictHas(d, k) THEN d ELSE Append(d, [key |-> k, val |-> v])

DictKeys(d) == {d[j].key : j \in 1..Len(d)}

(***************************************************************************)
(* dateutils.py                                                            *)
(***************************************************************************)
DateStr(wall, off) == [wall |-> wall, off |-> off, wellformed |-> TRUE]

\* strptime raises ValueError exactly when the text does not match the format
Parses(date_str) == date_str.wellformed

\* the instant a well-formed timestamp denotes: %z makes the datetime aware
strptime(date_str) == date_str.wall - date_str.off

\* mutant of datetime_compare: the sign of the difference is lost
datetime_compare_negated(a, b) ==
    LET span == b - a
    IN  span

\* a - b in seconds: -(end - start).total_seconds() with start = a, end = b.
\* The arguments are instants: a caller holding a string passes strptime of it,
\* as lines 21-22 do, and handles the ValueError where Parses fails.
datetime_compare(a, b) ==
    LET span == b - a
    IN  -span

(***************************************************************************)
(* report.py: find_at_time                                                 *)
(***************************************************************************)
\* mutant of find_at_time_loop: an entry at the query date never qualifies
find_at_time_loop_strict(items, date, inclusive, j, previous) ==
    LET RECURSIVE Loop(_, _)
        Loop(m, prev) ==
            IF m > Len(items) THEN prev
            ELSE LET diff == datetime_compare(strptime(items[m].date),
                                              strptime(date))
                 IN  IF diff < 0 THEN Loop(m + 1, items[m]) ELSE prev
    IN  Loop(j, previous)

\* mutant of find_at_time_loop: an entry at the query date always qualifies
find_at_time_loop_lenient(items, date, inclusive, j, previous) ==
    LET RECURSIVE Loop(_, _)
        Loop(m, prev) ==
            IF m > Len(items) THEN prev
            ELSE LET diff == datetime_compare(strptime(items[m].date),
                                              strptime(date))
                 IN  IF diff <= 0 THEN Loop(m + 1, items[m]) ELSE prev
    IN  Loop(j, previous)

\* previous after the for loop has run over items j.., all timestamps being
\* well-formed
RECURSIVE find_at_time_loop(_, _, _, _, _)
find_at_time_loop(items, date, inclusive, j, previous) ==
    IF j > Len(items) THEN previous
    ELSE LET item == items[j]
             diff == datetime_compare(strptime(item.date), strptime(date))
         IN  IF diff < 0 \/ (inclusive /\ diff = 0)
             THEN find_at_time_loop(items, date, inclusive, j + 1, item)
             ELSE previous

\* the timestamps datetime_compare parses before the loop ends: those of the
\* entries up to the first that does not qualify, and the query's
RECURSIVE find_at_time_parses(_, _, _, _)
find_at_time_parses(items, date, inclusive, j) ==
    IF j > Len(items) THEN TRUE
    ELSE /\ Parses(items[j].date)
         /\ Parses(date)
         /\ LET diff == datetime_compare(strptime(items[j].date), strptime(date))
            IN  IF diff < 0 \/ (inclusive /\ diff = 0)
                THEN find_at_time_parses(items, date, inclusive, j + 1)
                ELSE TRUE

\* previous or items[0]: a copied entry is a non-empty dict, hence true
find_at_time(log, date, issue_id, timeline_key, inclusive) ==
    LET items    == DictGet(log, issue_id)[timeline_key]
        previous == find_at_time_loop(items, date, inclusive, 1, NoneObj)
    IN  IF previous # NoneObj THEN previous ELSE PyAt(items, 0)

(***************************************************************************)
(* report.py: build_changelog                                              *)
(***************************************************************************)
Change(history, item) ==
    [date |-> history.created, from |-> item.from, to |-> item.to]

\* the changes one history appends to <field>_changes, items j.. of it
RECURSIVE ItemChanges(_, _, _)
ItemChanges(history, field, j) ==
    IF j > Len(history.items) THEN <<>>
    ELSE LET item == history.items[j]
         IN  (IF item.field = field /\ item.fieldtype = "jira"
              THEN <<Change(history, item)>> ELSE <<>>)
             \o ItemChanges(history, field, j + 1)

\* <field>_changes after the loop over histories h.. of the issue
RECURSIVE FieldChanges(_, _, _)
FieldChanges(histories, field, h) ==
    IF h > Len(histories) THEN <<>>
    ELSE ItemChanges(histories[h], field, 1)
         \o FieldChanges(histories, field, h + 1)

\* mutant of initial_status: takes the newest change, not the oldest
initial_status_newest(issue, status_changes) ==
    [date |-> issue.fields.created,
     from |-> None,
     to   |-> IF Len(status_changes) > 0
              THEN PyAt(status_changes, 0).from
              ELSE issue.fields.status.id]

initial_status(issue, status_changes) ==
    [date |-> issue.fields.created,
     from |-> None,
     to   |-> IF Len(status_changes) > 0
              THEN PyAt(status_changes, -1).from
              ELSE issue.fields.status.id]

initial_assignee(issue, assignee_changes) ==
    [date |-> issue.fields.created,
     from |-> None,
     to   |-> IF Len(assignee_changes) > 0
              THEN PyAt(assignee_changes, -1).from
              ELSE IF issue.fields.assignee # NoneObj
                   THEN issue.fields.assignee.accountId
                   ELSE None]

IssueTimelines(issue) ==
    LET status_changes   == FieldChanges(issue.changelog.histories, "status", 1)
        assignee_changes == FieldChanges(issue.changelog.histories, "assignee", 1)
    IN  [statuses  |-> Reversed(Append(status_changes,
                                       initial_status(issue, status_changes))),
         assignees |-> Reversed(Append(assignee_changes,
                                       initial_assignee(issue, assignee_changes)))]

\* the dict after the loop over issues n.. of the response, starting from acc
RECURSIVE build_changelog_from(_, _, _)
build_changelog_from(issues, n, acc) ==
    IF n > Len(issues) THEN acc
    ELSE build_changelog_from(issues, n + 1,
                              DictSet(acc, issues[n].id, IssueTimelines(issues[n])))

build_changelog(resp) == build_changelog_from(resp.issues, 1, <<>>)

(***************************************************************************)
(* report.py: calculate_workload                                           *)
(***************************************************************************)
\* main: status_map
status_map == [development |-> "10111", review |-> "10359"]

Indices(list) == [j \in 1..Len(list) |-> j - 1]

\* mutant of target_status_idx_of: tests the status entered, not the one left
target_status_idx_by_to(statuses, target_status) ==
    SelectSeq(Indices(statuses),
              LAMBDA i : PyAt(statuses, i).to = target_status)

\* [i for i, log in enumerate(statuses) if log["from"] == target_status]
target_status_idx_of(statuses, target_status) ==
    SelectSeq(Indices(statuses),
              LAMBDA i : PyAt(statuses, i).from = target_status)

\* mutant of while_body: the entry that ends the window is consumed
while_body_consuming(assignees, idx, st, en) ==
    LET date     == strptime(PyAt(assignees, idx).date)
        assignee == PyAt(assignees, idx).from
    IN  IF date < st
        THEN [assignee_idx |-> idx + 1, start |-> st, credited |-> FALSE,
              assignee |-> assignee, secs |-> 0, break |-> FALSE]
        ELSE IF date < en
        THEN [assignee_idx |-> idx + 1, start |-> date, credited |-> TRUE,
              assignee |-> assignee, secs |-> datetime_compare(date, st),
              break |-> FALSE]
        ELSE [assignee_idx |-> idx + 1, start |-> st, credited |-> TRUE,
              assignee |-> assignee, secs |-> datetime_compare(en, st),
              break |-> TRUE]

\* one pass through the body of the while loop, the cursor being on a
\* well-formed entry: the new cursor and start, the credit given (if any) and
\* whether the loop is left by break
while_body(assignees, idx, st, en) ==
    LET date     == strptime(PyAt(assignees, idx).date)
        assignee == PyAt(assignees, idx).from
    IN  IF date < st
        THEN [assignee_idx |-> idx + 1, start |-> st, credited |-> FALSE,
              assignee |-> assignee, secs |-> 0, break |-> FALSE]
        ELSE IF date < en
        THEN [assignee_idx |-> idx + 1, start |-> date, credited |-> TRUE,
              assignee |-> assignee, secs |-> datetime_compare(date, st),
              break |-> FALSE]
        ELSE [assignee_idx |-> idx, start |-> st, credited |-> TRUE,
              assignee |-> assignee, secs |-> datetime_compare(en, st),
              break |-> TRUE]

\* per_issue.setdefault(issue_id, {}).setdefault(assignee, 0), then
\* per_issue[issue_id][assignee] += secs
Credit(workloads, issue_id, assignee, secs) ==
    LET outer  == DictSetDefault(workloads, issue_id, <<>>)
        inner  == DictSetDefault(DictGet(outer, issue_id), assignee, 0)
        summed == DictSet(inner, assignee, DictGet(inner, assignee) + secs)
    IN  DictSet(outer, issue_id, summed)

(***************************************************************************)
(* report.py: group_by_lead                                                *)
(***************************************************************************)
\* mutant of lead_of: on a tie the last key wins
lead_of_last(assignee_scores) ==
    LET best == CHOOSE j \in 1..Len(assignee_scores) :
                    /\ \A m \in 1..Len(assignee_scores) :
                           assignee_scores[m].val <= assignee_scores[j].val
                    /\ \A m \in (j + 1)..Len(assignee_scores) :
                           assignee_scores[m].val < assignee_scores[j].val
    IN  assignee_scores[best].key

\* max(assignee_scores, key=assignee_scores.get): the first key, in iteration
\* order, whose value no other value exceeds
lead_of(assignee_scores) ==
    LET best == CHOOSE j \in 1..Len(assignee_scores) :
                    /\ \A m \in 1..Len(assignee_scores) :
                           assignee_scores[m].val <= assignee_scores[j].val
                    /\ \A m \in 1..(j - 1) :
                           assignee_scores[m].val < assignee_scores[j].val
    IN  assignee_scores[best].key

\* per_leads after the loop over items n.. of workloads, starting from acc
RECURSIVE group_by_lead_from(_, _, _)
group_by_lead_from(workloads, n, acc) ==
    IF n > Len(workloads) THEN acc
    ELSE LET issue_id        == workloads[n].key
             assignee_scores == workloads[n].val
         IN  IF Len(assignee_scores) > 0
             THEN LET lead_assignee == lead_of(assignee_scores)
                      lead_score    == DictGet(assignee_scores, lead_assignee)
                      with_lead     == DictSetDefault(acc, lead_assignee, <<>>)
                  IN  group_by_lead_from(workloads, n + 1,
                          DictSet(with_lead, lead_assignee,
                                  DictSet(DictGet(with_lead, lead_assignee),
                                          issue_id, lead_score)))
             ELSE group_by_lead_from(workloads, n + 1, acc)

group_by_lead(workloads) == group_by_lead_from(workloads, 1, <<>>)

(***************************************************************************)
(* The program: main of report.py, calculate_workload step by step         *)
(***************************************************************************)
\* line 298: changelog = build_changelog(response)
BuildChangelog ==
    /\ pc = "main"
    /\ changelog' = build_changelog(response)
    /\ pc' = "built"
    /\ UNCHANGED <<response, args_status, per_issue, issue_pos,
                   target_status_idx, win_pos, assignee_idx, start, end,
                   credit_log, per_leads, found>>

\* line 299 and line 148: the call, per_issue = {}
CallCalculateWorkload ==
    /\ pc = "built"
    /\ per_issue' = <<>>
    /\ issue_pos' = 0
    /\ pc' = "for_issue"
    /\ UNCHANGED <<response, args_status, changelog, target_status_idx,
                   win_pos, assignee_idx, start, end, credit_log, per_leads,
                   found>>

\* lines 149-155, and line 180 when the items are exhausted
ForIssue ==
    /\ pc = "for_issue"
    /\ IF issue_pos < Len(changelog)
       THEN LET fields == changelog[issue_pos + 1].val
            IN  /\ issue_pos' = issue_pos + 1
                /\ target_status_idx' =
                       target_status_idx_of(fields.statuses,
                                            status_map[args_status])
                /\ assignee_idx' = 0
                /\ win_pos' = 0
                /\ pc' = "for_window"
       ELSE /\ pc' = "returned"
            /\ UNCHANGED <<issue_pos, target_status_idx, assignee_idx, win_pos>>
    /\ UNCHANGED <<response, args_status, changelog, per_issue, start, end,
                   credit_log, per_leads, found>>

\* lines 157-159; a ValueError of strptime leaves calculate_workload and main
ForWindow ==
    /\ pc = "for_window"
    /\ IF win_pos < Len(target_status_idx)
       THEN LET fields == changelog[issue_pos].val
                i      == target_status_idx[win_pos + 1]
                first  == PyAt(fields.statuses, i - 1).date
                last   == PyAt(fields.statuses, i).date
            IN  /\ win_pos' = win_pos + 1
                /\ IF Parses(first) /\ Parses(last)
                   THEN /\ start' = strptime(first)
                        /\ end' = strptime(last)
                        /\ pc' = "while"
                   ELSE /\ pc' = "error"
                        /\ UNCHANGED <<start, end>>
       ELSE /\ pc' = "for_issue"
            /\ UNCHANGED <<win_pos, start, end>>
    /\ UNCHANGED <<response, args_status, changelog, per_issue, issue_pos,
                   target_status_idx, assignee_idx, credit_log, per_leads,
                   found>>

\* lines 161-178: the loop test and one pass through the body
While ==
    /\ pc = "while"
    /\ LET issue_id == changelog[issue_pos].key
           fields   == changelog[issue_pos].val
       IN  IF assignee_idx < Len(fields.assignees)
           THEN IF Parses(PyAt(fields.assignees, assignee_idx).date)
                THEN LET r == while_body(fields.assignees, assignee_idx,
                                         start, end)
                     IN  /\ assignee_idx' = r.assignee_idx
                         /\ start' = r.start
                         /\ per_issue' =
                                IF r.credited
                                THEN Credit(per_issue, issue_id, r.assignee,
                                            r.secs)
                                ELSE per_issue
                         /\ credit_log' =
                                IF r.credited
                                THEN Append(credit_log,
                                            [issue |-> issue_id,
                                             i |-> target_status_idx[win_pos],
                                             idx |-> assignee_idx,
                                             assignee |-> r.assignee,
                                             secs |-> r.secs])
                                ELSE credit_log
                         /\ pc' = IF r.break THEN "for_window" ELSE "while"
                ELSE /\ pc' = "error"
                     /\ UNCHANGED <<assignee_idx, start, per_issue, credit_log>>
           ELSE /\ pc' = "for_window"
                /\ UNCHANGED <<assignee_idx, start, per_issue, credit_log>>
    /\ UNCHANGED <<response, args_status, changelog, issue_pos,
                   target_status_idx, win_pos, end, per_leads, found>>

\* line 317 with line 225: groupped = group_by_lead(workloads)
GroupByLead ==
    /\ pc = "returned"
    /\ per_leads' = group_by_lead(per_issue)
    /\ pc' = "grouped"
    /\ UNCHANGED <<response, args_status, changelog, per_issue, issue_pos,
                   target_status_idx, win_pos, assignee_idx, start, end,
                   credit_log, found>>

\* the offsets and instants a caller of find_at_time may ask about are given
\* with the inputs below (QueryDates)
FindAtTimeCall(date, n, timeline_key, inclusive) ==
    LET issue_id == changelog[n].key
        items    == changelog[n].val[timeline_key]
    IN  IF find_at_time_parses(items, date, inclusive, 1)
        THEN /\ found' = [date |-> date, issue_id |-> issue_id,
                          timeline_key |-> timeline_key,
                          inclusive |-> inclusive,
                          result |-> find_at_time(changelog, date, issue_id,
                                                  timeline_key, inclusive)]
             /\ pc' = pc
        ELSE /\ pc' = "error"
             /\ found' = found

(***************************************************************************)
(* Inputs: one tracked issue whose history is a schedule of changes        *)
(***************************************************************************)
Horizon == 3

StatusIds == {"10001", "10111"}

AccountIds == {"A", "B"}

NoChange == "-"

\* what happens at each instant 1..Horizon after the creation at instant 0
Schedules ==
    [1..Horizon -> [status : StatusIds \cup {NoChange},
                    assignee : AccountIds \cup {None, NoChange}]]

RECURSIVE StatusAfter(_, _, _)
StatusAfter(sched, s0, t) ==
    IF t = 0 THEN s0
    ELSE IF sched[t].status = NoChange THEN StatusAfter(sched, s0, t - 1)
    ELSE sched[t].status

RECURSIVE AssigneeAfter(_, _, _)
AssigneeAfter(sched, a0, t) ==
    IF t = 0 THEN a0
    ELSE IF sched[t].assignee = NoChange THEN AssigneeAfter(sched, a0, t - 1)
    ELSE sched[t].assignee

\* a reassignment names somebody else; a status may be set to itself
RealSchedule(sched, a0) ==
    \A t \in 1..Horizon : sched[t].assignee # AssigneeAfter(sched, a0, t - 1)

HistoryAt(sched, s0, a0, t, off) ==
    [created |-> DateStr(t + off, off),
     items |->
        (IF sched[t].status = NoChange THEN <<>>
         ELSE <<[field |-> "status", fieldtype |-> "jira",
                 from |-> StatusAfter(sched, s0, t - 1),
                 to |-> sched[t].status]>>)
        \o
        (IF sched[t].assignee = NoChange THEN <<>>
         ELSE <<[field |-> "assignee", fieldtype |-> "jira",
                 from |-> AssigneeAfter(sched, a0, t - 1),
                 to |-> sched[t].assignee]>>)]

\* the histories of instants t, t-1, .., 1: newest first, as the tracker
\* reports them
RECURSIVE HistoriesDownFrom(_, _, _, _, _)
HistoriesDownFrom(sched, s0, a0, t, off) ==
    IF t = 0 THEN <<>>
    ELSE (IF sched[t].status = NoChange /\ sched[t].assignee = NoChange
          THEN <<>> ELSE <<HistoryAt(sched, s0, a0, t, off)>>)
         \o HistoriesDownFrom(sched, s0, a0, t - 1, off)

ScheduledIssue(id, sched, s0, a0, off) ==
    [id |-> id,
     fields |->
        [created |-> DateStr(0, 0),
         status |-> [id |-> StatusAfter(sched, s0, Horizon)],
         assignee |-> IF AssigneeAfter(sched, a0, Horizon) = None
                      THEN NoneObj
                      ELSE [accountId |-> AssigneeAfter(sched, a0, Horizon)]],
     changelog |-> [histories |-> HistoriesDownFrom(sched, s0, a0, Horizon, off)]]

\* the UTC offsets the tracker writes the histories' timestamps with
TzOffsets == {0, 1}

\* the locals of calculate_workload and the results, before anything has run
NothingComputed ==
    /\ changelog = <<>>
    /\ per_issue = <<>>
    /\ issue_pos = 0
    /\ target_status_idx = <<>>
    /\ win_pos = 0
    /\ assignee_idx = 0
    /\ start = 0
    /\ end = 0
    /\ credit_log = <<>>
    /\ per_leads = <<>>
    /\ found = <<>>

\* a second issue: assigned to B, it enters the target status at 1 and leaves
\* it at 3, being handed to A at 2 and back to B at 3
FollowingSchedule ==
    [t \in 1..Horizon |->
        IF t = 1 THEN [status |-> "10111", assignee |-> NoChange]
        ELSE IF t = 2 THEN [status |-> NoChange, assignee |-> "A"]
        ELSE IF t = 3 THEN [status |-> "10001", assignee |-> "B"]
        ELSE [status |-> NoChange, assignee |-> NoChange]]

FollowingIssue == ScheduledIssue("I2", FollowingSchedule, "10001", "B", 0)

\* the response holds one issue of any schedule, alone or (its timestamps
\* being written with offset 0) followed by the second issue
Init ==
    /\ \E sched \in Schedules, s0 \in StatusIds, a0 \in AccountIds \cup {None},
          off \in TzOffsets, followed \in BOOLEAN :
           /\ RealSchedule(sched, a0)
           /\ followed => off = 0
           /\ response =
                  [issues |-> <<ScheduledIssue("I1", sched, s0, a0, off)>>
                              \o (IF followed THEN <<FollowingIssue>> ELSE <<>>)]
    /\ args_status \in DOMAIN status_map
    /\ pc = "main"
    /\ NothingComputed

Next ==
    \/ BuildChangelog
    \/ CallCalculateWorkload
    \/ ForIssue
    \/ ForWindow
    \/ While
    \/ GroupByLead

Spec == Init /\ [][Next]_vars

(***************************************************************************)
(* Properties of calculate_workload                                        *)
(***************************************************************************)
Instant(entry) == entry.date.wall - entry.date.off

Ascending(timeline) ==
    \A j, k \in 1..Len(timeline) :
        j < k => Instant(timeline[j]) <= Instant(timeline[k])

AscendingIssue(fields) ==
    Ascending(fields.statuses) /\ Ascending(fields.assignees)

target_status == status_map[args_status]

\* the 0-based indices of the status entries that leave the target status
WindowsOf(fields) ==
    {k \in 1..(Len(fields.statuses) - 1) :
        PyAt(fields.statuses, k).from = target_status}

WindowStart(fields, k) == Instant(PyAt(fields.statuses, k - 1))

WindowEnd(fields, k) == Instant(PyAt(fields.statuses, k))

RECURSIVE TotalSecs(_)
TotalSecs(log) ==
    IF log = <<>> THEN 0 ELSE Head(log).secs + TotalSecs(Tail(log))

\* the credits given for window k of an issue, and those of them given while
\* the cursor was on entry c
WindowLog(issue_id, k) ==
    SelectSeq(credit_log, LAMBDA e : e.issue = issue_id /\ e.i = k)

CursorLog(issue_id, k, c) ==
    SelectSeq(credit_log,
              LAMBDA e : e.issue = issue_id /\ e.i = k /\ e.idx = c)

Min(a, b) == IF a <= b THEN a ELSE b

Max(a, b) == IF a >= b THEN a ELSE b

Overlap(from1, to1, from2, to2) ==
    Max(0, Min(to1, to2) - Max(from1, from2))

Returned == pc \in {"returned", "grouped"}

\* C1: when calculate_workload has returned, for every issue with ascending
\* timelines and every closed target-status window, the seconds credited for
\* the window add up to the window's duration.
WindowCompleteness ==
    Returned =>
        \A n \in 1..Len(changelog) :
            LET issue_id == changelog[n].key
                fields   == changelog[n].val
            IN  AscendingIssue(fields) =>
                    \A k \in WindowsOf(fields) :
                        TotalSecs(WindowLog(issue_id, k))
                            = WindowEnd(fields, k) - WindowStart(fields, k)

\* the timelines of scenario A, for some t0 <= t1 < t1h < t2 and A # B
ScenarioA(fields) ==
    LET st == fields.statuses
        as == fields.assignees
    IN  /\ Len(st) = 3 /\ Len(as) = 2
        /\ st[1].from = None /\ st[1].to # target_status
        /\ st[2].from = st[1].to /\ st[2].to = target_status
        /\ st[3].from = target_status /\ st[3].to = st[1].to
        /\ as[1].from = None /\ as[1].to \in AccountIds
        /\ as[2].from = as[1].to
        /\ as[2].to \in AccountIds /\ as[2].to # as[1].to
        /\ Instant(as[1]) = Instant(st[1])
        /\ Instant(st[1]) <= Instant(st[2])
        /\ Instant(st[2]) < Instant(as[2])
        /\ Instant(as[2]) < Instant(st[3])

\* C2: in scenario A the result for the issue is exactly
\* {A: t1h - t1, B: t2 - t1h}.
SingleReassignment ==
    Returned =>
        \A n \in 1..Len(changelog) :
            LET issue_id == changelog[n].key
                fields   == changelog[n].val
                A        == fields.assignees[2].from
                B        == fields.assignees[2].to
                t1       == Instant(fields.statuses[2])
                t1h      == Instant(fields.assignees[2])
                t2       == Instant(fields.statuses[3])
            IN  ScenarioA(fields) =>
                    /\ DictHas(per_issue, issue_id)
                    /\ DictKeys(DictGet(per_issue, issue_id)) = {A, B}
                    /\ DictGet(DictGet(per_issue, issue_id), A) = t1h - t1
                    /\ DictGet(DictGet(per_issue, issue_id), B) = t2 - t1h

NeverLeavesTarget(fields) ==
    \A j \in 1..Len(fields.statuses) : fields.statuses[j].from # target_status

\* C3: an issue whose status timeline has no entry leaving the target status
\* never has a key in the result.
OpenWindowExclusion ==
    \A n \in 1..Len(changelog) :
        NeverLeavesTarget(changelog[n].val)
            => ~DictHas(per_issue, changelog[n].key)

\* an issue that entered the target status, was reassigned meanwhile and never
\* left the status has no key when calculate_workload has returned
OpenWindowWitness ==
    /\ Returned
    /\ \E n \in 1..Len(changelog) :
           LET fields == changelog[n].val
           IN  /\ NeverLeavesTarget(fields)
               /\ Len(fields.statuses) > 1
               /\ PyAt(fields.statuses, -1).to = target_status
               /\ Len(fields.assignees) > 1
               /\ ~DictHas(per_issue, changelog[n].key)

\* C4: when calculate_workload has returned, for every issue with ascending
\* timelines, every window and every assignee entry c >= 1, at most one credit
\* was given for the window with the cursor on c, it went to the from value of
\* entry c, and the seconds so credited are the length of the overlap of
\* [date(c-1), date(c)) with the window.
OverlapCredit ==
    Returned =>
        \A n \in 1..Len(changelog) :
            LET issue_id == changelog[n].key
                fields   == changelog[n].val
            IN  AscendingIssue(fields) =>
                    \A k \in WindowsOf(fields) :
                        \A c \in 1..(Len(fields.assignees) - 1) :
                            LET log == CursorLog(issue_id, k, c)
                            IN  /\ Len(log) <= 1
                                /\ \A j \in 1..Len(log) :
                                       log[j].assignee
                                           = PyAt(fields.assignees, c).from
                                /\ TotalSecs(log)
                                       = Overlap(
                                           Instant(PyAt(fields.assignees, c - 1)),
                                           Instant(PyAt(fields.assignees, c)),
                                           WindowStart(fields, k),
                                           WindowEnd(fields, k))

\* one assignee interval was credited a positive overlap in two windows
OverlapCreditWitness ==
    /\ Returned
    /\ \E e1, e2 \in {credit_log[j] : j \in 1..Len(credit_log)} :
           /\ e1.issue = e2.issue /\ e1.idx = e2.idx /\ e1.idx >= 1
           /\ e1.i < e2.i
           /\ e1.secs > 0 /\ e2.secs > 0

\* C5: every value of the result and every single increment is >= 0, at every
\* step of the sweep.
NonNegativeAllocation ==
    /\ \A j \in 1..Len(credit_log) : credit_log[j].secs >= 0
    /\ \A n \in 1..Len(per_issue) :
           \A m \in 1..Len(per_issue[n].val) : per_issue[n].val[m].val >= 0

\* a result in which the null bucket and an assignee both hold seconds
NonNegativeWitness ==
    /\ Returned
    /\ \E n \in 1..Len(per_issue) :
           LET scores == per_issue[n].val
           IN  /\ DictHas(scores, None) /\ DictGet(scores, None) > 0
               /\ \E a \in AccountIds :
                      DictHas(scores, a) /\ DictGet(scores, a) > 0

(***************************************************************************)
(* Malformed timestamps                                                    *)
(***************************************************************************)
Garbled(date_str) == [date_str EXCEPT !.wellformed = FALSE]

\* the response with one timestamp of its issue garbled: the creation
\* timestamp (h = 0) or that of history h
WithGarbledTimestamp(resp, h) ==
    IF h = 0
    THEN [resp EXCEPT !.issues[1].fields.created = Garbled(@)]
    ELSE [resp EXCEPT !.issues[1].changelog.histories[h].created = Garbled(@)]

InitMalformed ==
    /\ \E sched \in Schedules, s0 \in StatusIds, a0 \in AccountIds \cup {None},
          off \in TzOffsets, h \in 0..Horizon :
           LET resp == [issues |-> <<ScheduledIssue("I1", sched, s0, a0, off)>>]
           IN  /\ RealSchedule(sched, a0)
               /\ h <= Len(resp.issues[1].changelog.histories)
               /\ response = WithGarbledTimestamp(resp, h)
    /\ args_status \in DOMAIN status_map
    /\ pc = "main"
    /\ NothingComputed

SpecMalformed == InitMalformed /\ [][Next]_vars

HasMalformedTimestamp(fields) ==
    \/ \E j \in 1..Len(fields.statuses) : ~Parses(fields.statuses[j].date)
    \/ \E j \in 1..Len(fields.assignees) : ~Parses(fields.assignees[j].date)

\* C10: when a timeline of some issue carries a timestamp that cannot be
\* parsed, build_changelog followed by calculate_workload does not return a
\* result.
MalformedTimestampFatal ==
    Returned =>
        \A n \in 1..Len(changelog) : ~HasMalformedTimestamp(changelog[n].val)

(***************************************************************************)
(* build_changelog alone, on responses that need not be in any order        *)
(***************************************************************************)
MaxHistories == 2

MaxDate == 2

\* the field changes a history may carry: for the status, for the assignee,
\* one of another field type and one of another field
RawItems ==
    {[field |-> "status", fieldtype |-> "jira", from |-> "10001", to |-> "10111"],
     [field |-> "status", fieldtype |-> "jira", from |-> "10111", to |-> "10001"],
     [field |-> "assignee", fieldtype |-> "jira", from |-> None, to |-> "A"],
     [field |-> "assignee", fieldtype |-> "jira", from |-> "A", to |-> "B"],
     [field |-> "status", fieldtype |-> "custom", from |-> "10111", to |-> "10359"],
     [field |-> "resolution", fieldtype |-> "jira", from |-> None, to |-> "10000"]}

\* a history carries one item, or two: a status change with a reassignment,
\* two status changes, or two items of which only the second is a change
RawItemLists ==
    {<<x>> : x \in RawItems}
    \cup {<<[field |-> "status", fieldtype |-> "jira", from |-> "10001", to |-> "10111"],
            [field |-> "assignee", fieldtype |-> "jira", from |-> None, to |-> "A"]>>,
          <<[field |-> "status", fieldtype |-> "jira", from |-> "10111", to |-> "10001"],
            [field |-> "status", fieldtype |-> "jira", from |-> "10001", to |-> "10111"]>>,
          <<[field |-> "status", fieldtype |-> "custom", from |-> "10111", to |-> "10359"],
            [field |-> "assignee", fieldtype |-> "jira", from |-> "A", to |-> "B"]>>}

RawHistories ==
    {[created |-> DateStr(t, 0), items |-> l] :
        t \in 0..MaxDate, l \in RawItemLists}

RawIssue(t, s, a, h) ==
    [id |-> "I1",
     fields |-> [created |-> DateStr(t, 0), status |-> [id |-> s],
                 assignee |-> a],
     changelog |-> [histories |-> h]]

InitBuild ==
    /\ \E n \in 0..MaxHistories :
           \E h \in [1..n -> RawHistories], t \in 0..1,
              s \in {"10001", "10111"}, a \in {NoneObj, [accountId |-> "A"]} :
               response = [issues |-> <<RawIssue(t, s, a, h)>>]
    /\ args_status = "development"
    /\ pc = "main"
    /\ NothingComputed

NextBuild == BuildChangelog

SpecBuild == InitBuild /\ [][NextBuild]_vars

\* the positions <<history, item>> of the changes of a field, and their order
\* in the response
Matching(issue, field) ==
    LET hs == issue.changelog.histories
    IN  UNION {{<<h, j>> : j \in {m \in 1..Len(hs[h].items) :
                                    /\ hs[h].items[m].field = field
                                    /\ hs[h].items[m].fieldtype = "jira"}} :
               h \in 1..Len(hs)}

NotAfter(p, q) == p[1] < q[1] \/ (p[1] = q[1] /\ p[2] <= q[2])

Rank(issue, field, p) ==
    Cardinality({q \in Matching(issue, field) : NotAfter(q, p)})

CurrentValue(issue, field) ==
    IF field = "status" THEN issue.fields.status.id
    ELSE IF issue.fields.assignee = NoneObj THEN None
    ELSE issue.fields.assignee.accountId

NewestFirst(issue) ==
    LET hs == issue.changelog.histories
    IN  /\ \A h, k \in 1..Len(hs) :
               h < k => hs[h].created.wall - hs[h].created.off
                            >= hs[k].created.wall - hs[k].created.off
        /\ \A h \in 1..Len(hs) :
               hs[h].created.wall - hs[h].created.off
                   >= issue.fields.created.wall - issue.fields.created.off

TimelineBuilt(issue, field, timeline) ==
    LET hs == issue.changelog.histories
        P  == Matching(issue, field)
        n  == Cardinality(P)
    IN  /\ Len(timeline) = n + 1
        /\ timeline[1].date = issue.fields.created
        /\ timeline[1].from = None
        /\ timeline[1].to =
               IF n = 0 THEN CurrentValue(issue, field)
               ELSE LET last == CHOOSE p \in P : Rank(issue, field, p) = n
                    IN  hs[last[1]].items[last[2]].from
        /\ \A p \in P :
               timeline[n + 2 - Rank(issue, field, p)]
                   = [date |-> hs[p[1]].created,
                      from |-> hs[p[1]].items[p[2]].from,
                      to |-> hs[p[1]].items[p[2]].to]
        /\ NewestFirst(issue) => Ascending(timeline)

\* C6: after build_changelog each timeline of each issue is the synthetic
\* entry {creation timestamp, None, from of the oldest matching change or the
\* current value} followed by the matching changes in the reverse of their
\* input order, and is non-decreasing by date when the input is newest first
\* with no change older than the creation.
TimelineConstruction ==
    pc = "built" =>
        /\ DictKeys(changelog) = {response.issues[n].id :
                                     n \in 1..Len(response.issues)}
        /\ \A n \in 1..Len(response.issues) :
               LET issue  == response.issues[n]
                   fields == DictGet(changelog, issue.id)
               IN  /\ TimelineBuilt(issue, "status", fields.statuses)
                   /\ TimelineBuilt(issue, "assignee", fields.assignees)

\* a built changelog with two status changes of different from values, given
\* oldest first, beside an assignee change and an item that matches nothing
TimelineConstructionWitness ==
    /\ pc = "built"
    /\ LET issue  == response.issues[1]
           fields == DictGet(changelog, issue.id)
       IN  /\ Len(fields.statuses) = 3
           /\ fields.statuses[2].from # fields.statuses[3].from
           /\ ~Ascending(fields.statuses)
           /\ Len(fields.assignees) = 2
           /\ \E h \in 1..Len(issue.changelog.histories) :
                  issue.changelog.histories[h].items[1].fieldtype # "jira"

(***************************************************************************)
(* find_at_time on the timelines build_changelog produces                  *)
(***************************************************************************)
LookupItems ==
    {[field |-> "status", fieldtype |-> "jira", from |-> "10001", to |-> "10111"],
     [field |-> "status", fieldtype |-> "jira", from |-> "10111", to |-> "10001"],
     [field |-> "assignee", fieldtype |-> "jira", from |-> None, to |-> "A"]}

LookupHistories(off) ==
    {[created |-> DateStr(t + off, off), items |-> <<x>>] :
        t \in 0..MaxDate, x \in LookupItems}

QueryDates ==
    {DateStr(t + off, off) : t \in 0..(MaxDate + 1), off \in TzOffsets}

\* a call find_at_time(changelog, date, issue_id, timeline_key, inclusive) by
\* the reporting code, on the changelog main has built
FindAtTime ==
    /\ pc = "built"
    /\ \E date \in QueryDates, n \in 1..Len(changelog),
          timeline_key \in {"statuses", "assignees"}, inclusive \in BOOLEAN :
           FindAtTimeCall(date, n, timeline_key, inclusive)
    /\ UNCHANGED <<response, args_status, changelog, per_issue, issue_pos,
                   target_status_idx, win_pos, assignee_idx, start, end,
                   credit_log, per_leads>>

InitLookup ==
    /\ \E n \in 0..MaxHistories, off \in TzOffsets :
           \E h \in [1..n -> LookupHistories(off)] :
               response = [issues |-> <<RawIssue(0, "10001", NoneObj, h)>>]
    /\ args_status = "development"
    /\ pc = "main"
    /\ NothingComputed

NextLookup ==
    \/ BuildChangelog
    \/ FindAtTime

SpecLookup == InitLookup /\ [][NextLookup]_vars

InstantOf(date_str) == date_str.wall - date_str.off

FoundTimeline == DictGet(changelog, found.issue_id)[found.timeline_key]

\* the positions of the entries that qualify for the last call
Qualifying ==
    {j \in 1..Len(FoundTimeline) :
        \/ Instant(FoundTimeline[j]) < InstantOf(found.date)
        \/ found.inclusive
           /\ Instant(FoundTimeline[j]) = InstantOf(found.date)}

\* C7: on a timeline non-decreasing by date find_at_time returns the last
\* entry dated before the query date (or at it, when inclusive), the first
\* entry when there is none, and the changelog stays as it was built.
PointInTimeLookup ==
    found # <<>> =>
        /\ Ascending(FoundTimeline) =>
               found.result =
                   IF Qualifying = {} THEN FoundTimeline[1]
                   ELSE FoundTimeline[CHOOSE j \in Qualifying :
                                          \A k \in Qualifying : k <= j]
        /\ changelog = build_changelog(response)

\* a strict lookup at the date of an entry that has entries before and after
\* it returns the entry before
PointInTimeLookupWitness ==
    /\ found # <<>>
    /\ ~found.inclusive
    /\ Ascending(FoundTimeline)
    /\ Len(FoundTimeline) = 3
    /\ Instant(FoundTimeline[1]) < Instant(FoundTimeline[2])
    /\ Instant(FoundTimeline[2]) < Instant(FoundTimeline[3])
    /\ InstantOf(found.date) = Instant(FoundTimeline[2])
    /\ found.result = FoundTimeline[1]

\* C8 as claimed: an inclusive lookup at the date of an entry t of a timeline
\* non-decreasing by date returns t.
LookupConsistency ==
    (found # <<>> /\ found.inclusive /\ Ascending(FoundTimeline)) =>
        \A j \in 1..Len(FoundTimeline) :
            found.date = FoundTimeline[j].date
                => found.result = FoundTimeline[j]

\* C8 as amended: an inclusive lookup at the date of an entry t of a timeline
\* non-decreasing by date returns t when no later entry has the date of t (it
\* returns the last of the entries that have that date).
LookupConsistencyLastOfDate ==
    (found # <<>> /\ found.inclusive /\ Ascending(FoundTimeline)) =>
        \A j \in 1..Len(FoundTimeline) :
            (/\ InstantOf(found.date) = Instant(FoundTimeline[j])
             /\ \A k \in (j + 1)..Len(FoundTimeline) :
                    Instant(FoundTimeline[k]) # Instant(FoundTimeline[j]))
                => found.result = FoundTimeline[j]

\* an inclusive lookup at a date two entries share, a later entry following,
\* returns the second of the two
LookupConsistencyWitness ==
    /\ found # <<>>
    /\ found.inclusive
    /\ Ascending(FoundTimeline)
    /\ Len(FoundTimeline) = 3
    /\ found.date = FoundTimeline[1].date
    /\ Instant(FoundTimeline[1]) = Instant(FoundTimeline[2])
    /\ Instant(FoundTimeline[2]) < Instant(FoundTimeline[3])
    /\ FoundTimeline[1] # FoundTimeline[2]
    /\ found.result = FoundTimeline[2]

(***************************************************************************)
(* group_by_lead alone, on allocations of any shape                        *)
(***************************************************************************)
MaxLeadIssues == 2

MaxScore == 2

LeadIssueIds == <<"I1", "I2", "I3", "I4">>

\* a dict of at most two assignees, in either order
ScoreDicts ==
    {<<>>}
    \cup {<<[key |-> a, val |-> v]>> : a \in AccountIds, v \in 0..MaxScore}
    \cup {<<[key |-> x[1], val |-> x[2]], [key |-> x[3], val |-> x[4]]>> :
             x \in {y \in AccountIds \X (0..MaxScore)
                          \X AccountIds \X (0..MaxScore) : y[1] # y[3]}}

InitLead ==
    /\ response = [issues |-> <<>>]
    /\ args_status = "development"
    /\ pc = "returned"
    /\ changelog = <<>>
    /\ \E n \in 0..MaxLeadIssues :
           \E f \in [1..n -> ScoreDicts] :
               per_issue = [j \in 1..n |-> [key |-> LeadIssueIds[j], val |-> f[j]]]
    /\ issue_pos = 0
    /\ target_status_idx = <<>>
    /\ win_pos = 0
    /\ assignee_idx = 0
    /\ start = 0
    /\ end = 0
    /\ credit_log = <<>>
    /\ per_leads = <<>>
    /\ found = <<>>

NextLead == GroupByLead

SpecLead == InitLead /\ [][NextLead]_vars

\* the groups an issue appears in
GroupsOf(issue_id) ==
    {j \in 1..Len(per_leads) : DictHas(per_leads[j].val, issue_id)}

LeadSelected ==
    /\ \A j, k \in 1..Len(per_leads) :
           per_leads[j].key = per_leads[k].key => j = k
    /\ \A j \in 1..Len(per_leads) :
           /\ per_leads[j].val # <<>>
           /\ DictKeys(per_leads[j].val) \subseteq DictKeys(per_issue)
           /\ \A m, k \in 1..Len(per_leads[j].val) :
                  per_leads[j].val[m].key = per_leads[j].val[k].key => m = k
    /\ \A n \in 1..Len(per_issue) :
           LET issue_id == per_issue[n].key
               scores   == per_issue[n].val
           IN  IF scores = <<>> THEN GroupsOf(issue_id) = {}
               ELSE \E j \in 1..Len(per_leads) :
                        /\ GroupsOf(issue_id) = {j}
                        /\ \E m \in 1..Len(scores) :
                               /\ scores[m].key = per_leads[j].key
                               /\ \A k \in 1..Len(scores) :
                                      scores[k].val <= scores[m].val
                               /\ \A k \in 1..(m - 1) :
                                      scores[k].val < scores[m].val
                               /\ DictGet(per_leads[j].val, issue_id)
                                      = scores[m].val

\* C9: group_by_lead puts every issue with a non-empty allocation under
\* exactly one assignee, the first one holding the issue's maximum, with that
\* maximum as the value, puts an issue with an empty allocation nowhere, and
\* leaves the allocation as it was.
LeadSelection ==
    [][GroupByLead => (per_issue' = per_issue /\ LeadSelected')]_vars

\* scenario C with the scores scaled: {I1: {A: 1, B: 2}, I2: {A: 2}} has
\* yielded {B: {I1: 2}, A: {I2: 2}}
LeadSelectionWitness ==
    /\ pc = "grouped"
    /\ per_issue = <<[key |-> "I1", val |-> <<[key |-> "A", val |-> 1],
                                              [key |-> "B", val |-> 2]>>],
                     [key |-> "I2", val |-> <<[key |-> "A", val |-> 2]>>]>>
    /\ per_leads = <<[key |-> "B", val |-> <<[key |-> "I1", val |-> 2]>>],
                     [key |-> "A", val |-> <<[key |-> "I2", val |-> 2]>>]>>

====
